---- MODULE Spec2Model ----
(***************************************************************************)
(* The order workflow of v1main.go and v3main.go: one run of main() from   *)
(* the first remote call (create cart) to process exit.  The remote API is *)
(* the environment: every call either returns a transport/API error or     *)
(* succeeds with a response body chosen from a small set of JSON values.   *)
(*                                                                         *)
(* Go strings that come from or go into responses and paths are sequences  *)
(* of one-character strings, so that strconv.ParseInt and fmt.Sprintf are  *)
(* computed on the characters.                                             *)
(***************************************************************************)
EXTENDS Integers, Sequences, FiniteSets, TLC

VARIABLES
    variant,         \* which program runs: "v1" (v1main.go) or "v3" (v3main.go)
    pc,              \* position of main(): the next step, or a terminal state
    err,             \* the Go variable err
    cartID,          \* the Go variable cartID
    itemID,          \* the Go variable itemID (int64)
    cfgIdx,          \* index of the next entry of configItems
    optIdx,          \* index of the next entry of options
    attempt,         \* the checkout loop variable attempt
    order,           \* the Go map order (its key orderId)
    orderID,         \* the Go variable orderID
    paymentMethods,  \* the Go slice paymentMethods
    calls,           \* history: the remote calls issued, in order
    sleeps,          \* history: the time.Sleep durations, in seconds, in order
    report           \* the message of log.Fatalf / log.Fatal that ended the run

vars == <<variant, pc, err, cartID, itemID, cfgIdx, optIdx, attempt, order,
          orderID, paymentMethods, calls, sleeps, report>>

\* Number of distinct transport/API errors the remote side can answer with.
NumErr == 2

----------------------------------------------------------------------------
(* Errors *)

NoErr == [kind |-> "nil", code |-> 0]
ApiErr(i) == [kind |-> "api", code |-> i]
ApiErrs == {ApiErr(i) : i \in 1..NumErr}
SyntaxErr == [kind |-> "strconv.ErrSyntax", code |-> 0]

----------------------------------------------------------------------------
(* JSON values as the decoder (UseNumber) hands them to the program:       *)
(* a Go string, a json.Number (its literal text), a bool, or nil (JSON     *)
(* null, and what a map lookup yields for a missing key).                  *)

JStr(s) == [t |-> "string", v |-> s]
JNum(s) == [t |-> "json.Number", v |-> s]
JBool(s) == [t |-> "bool", v |-> s]
JNil == [t |-> "nil", v |-> <<>>]

S_c1 == <<"c", "-", "1">>
S_c2 == <<"c", "-", "2">>
S_o9 == <<"o", "-", "9">>
S_o8 == <<"o", "-", "8">>
S_p1 == <<"p", "-", "1">>
S_A1 == <<"A", "1">>
S_B2 == <<"B", "2">>
S_credit == <<"c", "r", "e", "d", "i", "t">>
S_ovh == <<"o", "v", "h", "-", "a", "c", "c", "o", "u", "n", "t">>
S_12345 == <<"1", "2", "3", "4", "5">>
S_42 == <<"4", "2">>
S_nil == <<"<", "n", "i", "l", ">">>

\* Response bodies the remote side may deliver for each field.
CartIdValues == {JStr(S_c1), JStr(S_c2), JNum(<<"7">>), JNil}

ItemIdValues ==
    {JNum(S_42), JNum(S_12345), JNum(<<"-", "7">>), JNum(<<"1", ".", "5">>),
     JNum(<<"1", "e", "3">>), JStr(S_12345), JStr(<<"a", "b", "c">>), JNil}

OrderIdValues ==
    {JStr(S_o9), JStr(S_o8), JNum(<<"9">>), JBool(<<"t", "r", "u", "e">>), JNil}

PM(id, ty) == [id |-> id, type |-> ty]

PaymentLists ==
    {<<>>,
     <<PM(JNum(<<"7">>), JStr(S_credit))>>,
     <<PM(JNum(<<"7">>), JStr(S_credit)), PM(JNum(<<"8">>), JStr(S_ovh))>>,
     <<PM(JStr(S_A1), JStr(S_credit)), PM(JStr(S_B2), JStr(S_ovh))>>,
     <<PM(JStr(S_p1), JStr(S_credit))>>,
     <<PM(JNum(<<"7">>), JNil)>>}

NoPay == PM(JNil, JNil)

----------------------------------------------------------------------------
(* strconv.ParseInt(s, 10, 64) on the characters of s.  The literals of    *)
(* the model have at most five digits, far below 2^63, so the range error  *)
(* of ParseInt cannot arise.                                               *)

Digits == <<"0", "1", "2", "3", "4", "5", "6", "7", "8", "9">>

IsDigit(c) == \E i \in 1..Len(Digits) : Digits[i] = c

DigitVal(c) == (CHOOSE i \in 1..Len(Digits) : Digits[i] = c) - 1

RECURSIVE ParseUint(_)
ParseUint(s) ==
    IF s = <<>> THEN 0
    ELSE ParseUint(SubSeq(s, 1, Len(s) - 1)) * 10 + DigitVal(s[Len(s)])

ParseInt(s) ==
    LET neg == s # <<>> /\ s[1] = "-"
        signed == s # <<>> /\ s[1] \in {"+", "-"}
        ds == IF signed THEN Tail(s) ELSE s
    IN  IF ds = <<>> \/ \E i \in 1..Len(ds) : ~IsDigit(ds[i])
        THEN [val |-> 0, err |-> SyntaxErr]
        ELSE [val |-> IF neg THEN 0 - ParseUint(ds) ELSE ParseUint(ds),
              err |-> NoErr]

\* fmt.Sprintf("%v", x) for the values the decoder produces.
SprintfV(x) == IF x.t = "nil" THEN S_nil ELSE x.v

----------------------------------------------------------------------------
(* Program data *)

configItems ==
    <<[Label |-> "dedicated_os",
       Value |-> IF variant = "v1" THEN "none_64_en" ELSE "none_64.en"],
      [Label |-> "region", Value |-> "united_states"],
      [Label |-> "dedicated_datacenter", Value |-> "hil"]>>

options ==
    IF variant = "v1"
    THEN <<"vrack-bandwidth-1000-24rise-us">>
    ELSE <<"vrack-bandwidth-1000-24rise-us",
           "softraid-2x512nvme-24rise-us",
           "ram-32g-ecc-3200-24rise-us",
           "bandwidth-1000-unguaranteed-24rise-us">>

maxRetries == 3

\* Mutant of LoopContinues: the loop runs one attempt more.
LoopContinues_OneMore(a) == a <= maxRetries + 1

\* Mutant of LoopContinues: the loop bound off by one.
LoopContinues_Strict(a) == a < maxRetries

\* The loop condition of the checkout retry loop.
LoopContinues(a) == a <= maxRetries

\* Mutant of Backoff: the exponent counted from zero.
Backoff_FromZero(a) == 2 ^ (a - 1)

\* time.Duration(math.Pow(2, float64(attempt))) * time.Second, in seconds.
Backoff(a) == 2 ^ a

\* json decoding of a successful response into the existing map order:
\* a key the response lacks keeps the value the map had.
Decode(m, body) == [orderId |-> IF body.t = "nil" THEN m.orderId ELSE body]

\* Mutant of OrderIDOf: a key the map never holds is read.
OrderIDOf_WrongKey(m) == SprintfV(JNil)

\* orderID := fmt.Sprintf("%v", order["orderId"])
OrderIDOf(m) == SprintfV(m.orderId)

\* Mutant of HasPaymentMethod: the comparison admits the empty slice.
HasPaymentMethod_Ge(pms) == Len(pms) >= 0

\* if len(paymentMethods) > 0
HasPaymentMethod(pms) == Len(pms) > 0

\* paymentMethods[0]
SelectedMethod(pms) == pms[1]

----------------------------------------------------------------------------
(* The remote calls, as recorded in the history calls: the operation, the  *)
(* identifiers put into its path and body, the error it returned, and the  *)
(* response field the program consumes (JNil where there is none).         *)

Call(op, cart, item, ord, label, value, planCode, pay, e, resp) ==
    [op |-> op, cartId |-> cart, itemId |-> item, orderId |-> ord,
     label |-> label, value |-> value, planCode |-> planCode, pay |-> pay,
     err |-> e, resp |-> resp]

CallCreateCart(e, resp) ==
    Call("createCart", <<>>, 0, <<>>, "", "", "", NoPay, e, resp)
CallAssign(c, e) ==
    Call("assign", c, 0, <<>>, "", "", "", NoPay, e, JNil)
CallAddItem(c, e, resp) ==
    Call("addItem", c, 0, <<>>, "", "", "24rise01-us", NoPay, e, resp)
CallConfigure(c, i, cfg, e) ==
    Call("configure", c, i, <<>>, cfg.Label, cfg.Value, "", NoPay, e, JNil)
CallAddOption(c, i, planCode, e) ==
    Call("addOption", c, i, <<>>, "", "", planCode, NoPay, e, JNil)
CallCheckout(c, e, resp) ==
    Call("checkout", c, 0, <<>>, "", "", "", NoPay, e, resp)
CallPaymentMethods(o, e) ==
    Call("paymentMethods", <<>>, 0, o, "", "", "", NoPay, e, JNil)
CallPay(o, pay, e) ==
    Call("pay", <<>>, 0, o, "", "", "", pay, e, JNil)

\* What the remote side answers: an error (no body is decoded) or success.
Answers == ApiErrs \cup {NoErr}
Body(e, body) == IF e = NoErr THEN body ELSE JNil

----------------------------------------------------------------------------
(* Process exit *)

NoReport == [fmt |-> "", label |-> "", err |-> NoErr, n |-> 0]

\* log.Fatalf(fmt, ...) / log.Fatal(fmt): the message, then os.Exit(1).
Fatal(fmt, label, e, n) ==
    /\ report' = [fmt |-> fmt, label |-> label, err |-> e, n |-> n]
    /\ pc' = "failed"

\* A run-time panic (failed type assertion, index out of range): exit 2.
Panic(what) ==
    /\ report' = [fmt |-> what, label |-> "", err |-> NoErr, n |-> 0]
    /\ pc' = "panic"

----------------------------------------------------------------------------
Init ==
    /\ variant \in {"v1", "v3"}
    /\ pc = "create"
    /\ err = NoErr
    /\ cartID = <<>>
    /\ itemID = 0
    /\ cfgIdx = 1
    /\ optIdx = 1
    /\ attempt = 1
    /\ order = [orderId |-> JNil]
    /\ orderID = <<>>
    /\ paymentMethods = <<>>
    /\ calls = <<>>
    /\ sleeps = <<>>
    /\ report = NoReport

\* Step 1: create a new cart, read cartId.
CreateCart ==
    /\ pc = "create"
    /\ \E e \in Answers, b \in CartIdValues :
        LET body == Body(e, b) IN
        /\ calls' = Append(calls, CallCreateCart(e, body))
        /\ err' = e
        /\ IF e # NoErr
           THEN Fatal("Error creating cart: %v", "", e, 0) /\ UNCHANGED cartID
           ELSE IF body.t # "string"
           THEN Panic("panic: interface conversion") /\ UNCHANGED cartID
           ELSE /\ cartID' = body.v
                /\ pc' = "assign"
                /\ UNCHANGED report
    /\ UNCHANGED <<variant, itemID, cfgIdx, optIdx, attempt, order, orderID,
                   paymentMethods, sleeps>>

\* Mutant of AssignCart: the error is logged and the run goes on.
AssignCart_LogOnly ==
    /\ pc = "assign"
    /\ \E e \in Answers :
        /\ calls' = Append(calls, CallAssign(cartID, e))
        /\ err' = e
        /\ pc' = "additem"
        /\ UNCHANGED report
    /\ UNCHANGED <<variant, cartID, itemID, cfgIdx, optIdx, attempt, order,
                   orderID, paymentMethods, sleeps>>

\* Step 2: assign the cart to the logged-in user.
AssignCart ==
    /\ pc = "assign"
    /\ \E e \in Answers :
        /\ calls' = Append(calls, CallAssign(cartID, e))
        /\ err' = e
        /\ IF e # NoErr
           THEN Fatal("Error assigning cart: %v", "", e, 0)
           ELSE pc' = "additem" /\ UNCHANGED report
    /\ UNCHANGED <<variant, cartID, itemID, cfgIdx, optIdx, attempt, order,
                   orderID, paymentMethods, sleeps>>

\* Step 3: add the server to the cart, convert itemId to int64.
AddItem ==
    /\ pc = "additem"
    /\ \E e \in Answers, b \in ItemIdValues :
        LET body == Body(e, b)
            parsed == ParseInt(body.v)
        IN
        /\ calls' = Append(calls, CallAddItem(cartID, e, body))
        /\ IF e # NoErr
           THEN /\ Fatal("Error adding server to cart: %v", "", e, 0)
                /\ err' = e
                /\ UNCHANGED itemID
           ELSE IF body.t # "json.Number"
           THEN /\ Panic("panic: interface conversion")
                /\ err' = e
                /\ UNCHANGED itemID
           ELSE /\ err' = parsed.err
                /\ itemID' = parsed.val
                /\ IF parsed.err # NoErr
                   THEN Fatal(IF variant = "v1"
                              THEN "Error converting itemId to int64: %v"
                              ELSE "Error converting itemId to integer: %v",
                              "", parsed.err, 0)
                   ELSE pc' = "configure" /\ UNCHANGED report
    /\ UNCHANGED <<variant, cartID, cfgIdx, optIdx, attempt, order, orderID,
                   paymentMethods, sleeps>>

\* Mutant of ConfigureItem: the loop is left after its first iteration.
ConfigureItem_Break ==
    /\ pc = "configure"
    /\ \E e \in Answers :
        LET config == configItems[cfgIdx] IN
        /\ calls' = Append(calls, CallConfigure(cartID, itemID, config, e))
        /\ err' = e
        /\ IF e # NoErr
           THEN Fatal("Error configuring %s: %v", config.Label, e, 0)
                /\ UNCHANGED cfgIdx
           ELSE /\ cfgIdx' = cfgIdx + 1
                /\ pc' = "option"
                /\ UNCHANGED report
    /\ UNCHANGED <<variant, cartID, itemID, optIdx, attempt, order, orderID,
                   paymentMethods, sleeps>>

\* Mutant of ConfigureItem: the failure message leaves the label out.
ConfigureItem_NoLabel ==
    /\ pc = "configure"
    /\ \E e \in Answers :
        LET config == configItems[cfgIdx] IN
        /\ calls' = Append(calls, CallConfigure(cartID, itemID, config, e))
        /\ err' = e
        /\ IF e # NoErr
           THEN Fatal("Error configuring item: %v", "", e, 0)
                /\ UNCHANGED cfgIdx
           ELSE /\ cfgIdx' = cfgIdx + 1
                /\ pc' = IF cfgIdx + 1 <= Len(configItems)
                         THEN "configure" ELSE "option"
                /\ UNCHANGED report
    /\ UNCHANGED <<variant, cartID, itemID, optIdx, attempt, order, orderID,
                   paymentMethods, sleeps>>

\* Step 4: one iteration of the loop over configItems.
ConfigureItem ==
    /\ pc = "configure"
    /\ \E e \in Answers :
        LET config == configItems[cfgIdx] IN
        /\ calls' = Append(calls, CallConfigure(cartID, itemID, config, e))
        /\ err' = e
        /\ IF e # NoErr
           THEN Fatal("Error configuring %s: %v", config.Label, e, 0)
                /\ UNCHANGED cfgIdx
           ELSE /\ cfgIdx' = cfgIdx + 1
                /\ pc' = IF cfgIdx + 1 <= Len(configItems)
                         THEN "configure" ELSE "option"
                /\ UNCHANGED report
    /\ UNCHANGED <<variant, cartID, itemID, optIdx, attempt, order, orderID,
                   paymentMethods, sleeps>>

\* Step 5: add an option (v1: the one option; v3: one iteration of the loop
\* over options).
AddOption ==
    /\ pc = "option"
    /\ \E e \in Answers :
        LET planCode == options[optIdx] IN
        /\ calls' = Append(calls, CallAddOption(cartID, itemID, planCode, e))
        /\ err' = e
        /\ IF e # NoErr
           THEN /\ IF variant = "v1"
                   THEN Fatal("Error adding option: %v", "", e, 0)
                   ELSE Fatal("Error adding option with planCode %s: %v",
                              planCode, e, 0)
                /\ UNCHANGED optIdx
           ELSE /\ optIdx' = optIdx + 1
                /\ pc' = IF optIdx + 1 <= Len(options)
                         THEN "option" ELSE "checkout"
                /\ UNCHANGED report
    /\ UNCHANGED <<variant, cartID, itemID, cfgIdx, attempt, order, orderID,
                   paymentMethods, sleeps>>

\* Mutant of Checkout: the loop is not left on success.
Checkout_NoBreak ==
    /\ variant = "v1"
    /\ pc = "checkout"
    /\ LoopContinues(attempt)
    /\ \E e \in Answers, b \in OrderIdValues :
        LET body == Body(e, b)
            order1 == IF e = NoErr THEN Decode(order, body) ELSE order
        IN
        /\ calls' = Append(calls, CallCheckout(cartID, e, body))
        /\ err' = e
        /\ order' = order1
        /\ attempt' = attempt + 1
        /\ sleeps' = IF e = NoErr THEN sleeps
                     ELSE Append(sleeps, Backoff(attempt))
        /\ IF LoopContinues(attempt + 1)
           THEN pc' = "checkout" /\ UNCHANGED <<report, orderID>>
           ELSE IF e = NoErr
           THEN /\ orderID' = OrderIDOf(order1)
                /\ pc' = "fetch"
                /\ UNCHANGED report
           ELSE /\ Fatal("Order validation failed: failed after %d retries",
                         "", NoErr, maxRetries)
                /\ UNCHANGED orderID
    /\ UNCHANGED <<variant, cartID, itemID, cfgIdx, optIdx, paymentMethods>>

\* Mutant of Checkout: no sleep after the last failed attempt.
Checkout_NoFinalSleep ==
    /\ variant = "v1"
    /\ pc = "checkout"
    /\ LoopContinues(attempt)
    /\ \E e \in Answers, b \in OrderIdValues :
        LET body == Body(e, b)
            order1 == IF e = NoErr THEN Decode(order, body) ELSE order
        IN
        /\ calls' = Append(calls, CallCheckout(cartID, e, body))
        /\ err' = e
        /\ order' = order1
        /\ IF e = NoErr
           THEN /\ orderID' = OrderIDOf(order1)
                /\ pc' = "fetch"
                /\ UNCHANGED <<attempt, sleeps, report>>
           ELSE /\ attempt' = attempt + 1
                /\ UNCHANGED orderID
                /\ IF LoopContinues(attempt + 1)
                   THEN /\ sleeps' = Append(sleeps, Backoff(attempt))
                        /\ pc' = "checkout"
                        /\ UNCHANGED report
                   ELSE /\ UNCHANGED sleeps
                        /\ Fatal("Order validation failed: failed after %d retries",
                                 "", NoErr, maxRetries)
    /\ UNCHANGED <<variant, cartID, itemID, cfgIdx, optIdx, paymentMethods>>

\* Step 6 of v1main.go: one iteration of the retry loop and, when the loop
\* is left, the code after it up to the next remote call.
Checkout ==
    /\ variant = "v1"
    /\ pc = "checkout"
    /\ LoopContinues(attempt)
    /\ \E e \in Answers, b \in OrderIdValues :
        LET body == Body(e, b)
            order1 == IF e = NoErr THEN Decode(order, body) ELSE order
        IN
        /\ calls' = Append(calls, CallCheckout(cartID, e, body))
        /\ err' = e
        /\ order' = order1
        /\ IF e = NoErr
           THEN /\ orderID' = OrderIDOf(order1)
                /\ pc' = "fetch"
                /\ UNCHANGED <<attempt, sleeps, report>>
           ELSE /\ sleeps' = Append(sleeps, Backoff(attempt))
                /\ attempt' = attempt + 1
                /\ UNCHANGED orderID
                /\ IF LoopContinues(attempt + 1)
                   THEN pc' = "checkout" /\ UNCHANGED report
                   ELSE Fatal("Order validation failed: failed after %d retries",
                              "", NoErr, maxRetries)
    /\ UNCHANGED <<variant, cartID, itemID, cfgIdx, optIdx, paymentMethods>>

\* Step 6 of v3main.go: a single checkout call.
CheckoutOnce ==
    /\ variant = "v3"
    /\ pc = "checkout"
    /\ \E e \in Answers, b \in OrderIdValues :
        LET body == Body(e, b)
            order1 == IF e = NoErr THEN Decode(order, body) ELSE order
        IN
        /\ calls' = Append(calls, CallCheckout(cartID, e, body))
        /\ err' = e
        /\ order' = order1
        /\ IF e # NoErr
           THEN Fatal("Error validating order: %v", "", e, 0)
                /\ UNCHANGED orderID
           ELSE /\ orderID' = OrderIDOf(order1)
                /\ pc' = "fetch"
                /\ UNCHANGED report
    /\ UNCHANGED <<variant, cartID, itemID, cfgIdx, optIdx, attempt,
                   paymentMethods, sleeps>>

\* Step 7: fetch the payment methods available for the order.
FetchPaymentMethods ==
    /\ pc = "fetch"
    /\ \E e \in Answers, pms \in PaymentLists :
        /\ calls' = Append(calls, CallPaymentMethods(orderID, e))
        /\ err' = e
        /\ IF e # NoErr
           THEN Fatal("Error fetching payment methods: %v", "", e, 0)
                /\ UNCHANGED paymentMethods
           ELSE /\ paymentMethods' = pms
                /\ pc' = "pay"
                /\ UNCHANGED report
    /\ UNCHANGED <<variant, cartID, itemID, cfgIdx, optIdx, attempt, order,
                   orderID, sleeps>>

\* Step 8: select the first payment method and pay.
SelectAndPay ==
    /\ pc = "pay"
    /\ IF ~HasPaymentMethod(paymentMethods)
       THEN /\ Fatal("No available payment methods found.", "", NoErr, 0)
            /\ UNCHANGED <<calls, err>>
       ELSE IF Len(paymentMethods) = 0
       THEN /\ Panic("panic: index out of range")
            /\ UNCHANGED <<calls, err>>
       ELSE LET m == SelectedMethod(paymentMethods) IN
            IF m.id.t # "json.Number" \/ m.type.t # "string"
            THEN /\ Panic("panic: interface conversion")
                 /\ UNCHANGED <<calls, err>>
            ELSE \E e \in Answers :
                 /\ calls' = Append(calls, CallPay(orderID, PM(m.id, m.type), e))
                 /\ err' = e
                 /\ IF e # NoErr
                    THEN Fatal("Error paying for the order: %v", "", e, 0)
                    ELSE pc' = "done" /\ UNCHANGED report
    /\ UNCHANGED <<variant, cartID, itemID, cfgIdx, optIdx, attempt, order,
                   orderID, paymentMethods, sleeps>>

Next ==
    \/ CreateCart
    \/ AssignCart
    \/ AddItem
    \/ ConfigureItem
    \/ AddOption
    \/ Checkout
    \/ CheckoutOnce
    \/ FetchPaymentMethods
    \/ SelectAndPay

Spec == Init /\ [][Next]_vars

\* main() is a single thread that always takes its next step, and every
\* remote call returns.
FairSpec == Spec /\ WF_vars(Next)

----------------------------------------------------------------------------
(* Vocabulary of the properties *)

Terminal == {"done", "failed", "panic"}

CallIdx == 1..Len(calls)
CheckoutIdx == {i \in CallIdx : calls[i].op = "checkout"}
FailedCheckouts == {i \in CheckoutIdx : calls[i].err # NoErr}
OkCheckouts == {i \in CheckoutIdx : calls[i].err = NoErr}
Issued(op) == \E i \in CallIdx : calls[i].op = op

RECURSIVE SumSeq(_)
SumSeq(s) == IF s = <<>> THEN 0 ELSE Head(s) + SumSeq(Tail(s))

\* 2^1 + 2^2 + ... + 2^k
RECURSIVE PowSum(_)
PowSum(k) == IF k = 0 THEN 0 ELSE PowSum(k - 1) + 2 ^ k

RetryExhaustedFmt == "Order validation failed: failed after %d retries"
BusinessEmptyFmt == "No available payment methods found."
ConversionFmts == {"Error converting itemId to int64: %v",
                   "Error converting itemId to integer: %v"}

\* The decimal numeral of an integer.
RECURSIVE DecimalOf(_)
DecimalOf(n) ==
    IF n < 0 THEN <<"-">> \o DecimalOf(0 - n)
    ELSE IF n < 10 THEN <<Digits[n + 1]>>
    ELSE DecimalOf(n \div 10) \o <<Digits[(n % 10) + 1]>>

----------------------------------------------------------------------------
\* C1: in v1main.go, once a checkout attempt has succeeded after k failed
\* attempts, k is 0, 1 or 2, the failed attempts are attempts 1..k and the
\* success is attempt k+1 (k+1 checkout calls in all), the run has slept
\* exactly k times and 2^1 + ... + 2^k seconds in total (nothing is slept
\* after the success), and the run has left the checkout step for the
\* payment-method fetch, never into the retry-exhausted failure.
C1_RetrySuccess ==
    (variant = "v1" /\ OkCheckouts # {}) =>
        LET k == Cardinality(FailedCheckouts) IN
        /\ k \in 0..2
        /\ Cardinality(CheckoutIdx) = k + 1
        /\ \A i \in FailedCheckouts, j \in OkCheckouts : i < j
        /\ Len(sleeps) = k
        /\ SumSeq(sleeps) = PowSum(k)
        /\ pc = "fetch" \/ Issued("paymentMethods")
        /\ report.fmt # RetryExhaustedFmt

C1_Witness ==
    /\ variant = "v1"
    /\ Cardinality(FailedCheckouts) = 2
    /\ OkCheckouts # {}
    /\ sleeps = <<2, 4>>
    /\ Issued("paymentMethods")

\* C2: in v1main.go, while no checkout call has succeeded there are at most
\* 3 checkout calls and no payment-method fetch and no pay call; after the
\* third failed call the run has failed with the retry-exhausted message
\* carrying the count 3 and no underlying error; and a run that ended
\* without a successful checkout call, having tried checkout, made exactly
\* 3 checkout calls.
C2_RetryExhausted ==
    variant = "v1" =>
        /\ OkCheckouts = {} =>
            /\ Cardinality(CheckoutIdx) <= 3
            /\ ~Issued("paymentMethods")
            /\ ~Issued("pay")
        /\ Cardinality(FailedCheckouts) = 3 =>
            /\ pc = "failed"
            /\ report.fmt = RetryExhaustedFmt
            /\ report.n = 3
            /\ report.err = NoErr
        /\ (pc \in Terminal /\ CheckoutIdx # {} /\ OkCheckouts = {}) =>
            Cardinality(CheckoutIdx) = 3

C2_Witness ==
    /\ variant = "v1"
    /\ Cardinality(FailedCheckouts) = 3
    /\ pc = "failed"
    /\ calls[Len(calls)].err # calls[Len(calls) - 1].err

\* C3: a call other than checkout that returned an error is the last call
\* of the run: the run is in the terminal failed state, reporting that
\* error, and no step is enabled any more.
C3_FailFast ==
    \A i \in CallIdx :
        (calls[i].op # "checkout" /\ calls[i].err # NoErr) =>
            /\ i = Len(calls)
            /\ pc = "failed"
            /\ report.err = calls[i].err
            /\ ~ENABLED Next

C3_Witness ==
    /\ pc = "failed"
    /\ Len(calls) > 0
    /\ calls[Len(calls)].op = "pay"
    /\ calls[Len(calls)].err # NoErr

\* The pipeline of the running variant up to checkout, then the two calls
\* after it: operation, configuration label and plan code of each call.
Sig(op, label, planCode) == [op |-> op, label |-> label, planCode |-> planCode]
SigOf(c) == Sig(c.op, c.label, c.planCode)

BeforeCheckout ==
    <<Sig("createCart", "", ""), Sig("assign", "", ""),
      Sig("addItem", "", "24rise01-us")>>
    \o [i \in 1..Len(configItems) |-> Sig("configure", configItems[i].Label, "")]
    \o [i \in 1..Len(options) |-> Sig("addOption", "", options[i])]

Pipeline ==
    BeforeCheckout
    \o <<Sig("checkout", "", ""), Sig("paymentMethods", "", ""), Sig("pay", "", "")>>

IsProgress(c) == c.op # "checkout" \/ c.err = NoErr

\* The calls with the failed checkout attempts left out.
Progress == SelectSeq(calls, IsProgress)

PcRank ==
    CASE pc = "create" -> 1
      [] pc = "assign" -> 2
      [] pc = "additem" -> 3
      [] pc = "configure" -> 4
      [] pc = "option" -> 5
      [] pc = "checkout" -> 6
      [] pc = "fetch" -> 7
      [] pc = "pay" -> 8
      [] OTHER -> 9

C4_Prefix ==
    /\ Len(Progress) <= Len(Pipeline)
    /\ \A i \in 1..Len(Progress) : SigOf(Progress[i]) = Pipeline[i]
    /\ \A i \in CallIdx : (calls[i].err # NoErr /\ i < Len(calls)) =>
           calls[i].op = "checkout"
    /\ \A i \in CheckoutIdx :
           /\ i > Len(BeforeCheckout)
           /\ i <= Len(BeforeCheckout) + 3
           /\ \A j \in 1..Len(BeforeCheckout) : calls[j].err = NoErr

C4_Step ==
    /\ PcRank' >= PcRank
    /\ cfgIdx' >= cfgIdx
    /\ optIdx' >= optIdx
    /\ attempt' >= attempt
    /\ Len(calls') >= Len(calls)
    /\ SubSeq(calls', 1, Len(calls)) = calls

\* C4: in every run the calls issued, failed checkout attempts left out,
\* are a prefix of create-cart, assign, add-item, one configure per entry of
\* configItems in order, one add-option per plan code in order, checkout,
\* list-payment-methods, pay; only the last call or a checkout attempt may
\* have failed; the checkout attempts (at most 3) come after all earlier
\* calls have succeeded; and no step moves the position, a loop index or the
\* history backward.
C4_ForwardOnly == []C4_Prefix /\ [][C4_Step]_vars

C4_Witness ==
    /\ variant = "v3"
    /\ pc = "done"
    /\ Len(calls) = Len(Pipeline)

\* C5: every call that carries a cartId carries the one create-cart
\* returned; every configure and add-option call carries the integer whose
\* numeral add-item returned; the list-payment-methods and pay calls carry
\* the text of the orderId that the successful checkout attempt returned.
C5_Threading ==
    /\ \A i \in CallIdx :
        calls[i].op \in {"assign", "addItem", "configure", "addOption", "checkout"} =>
            /\ calls[1].op = "createCart"
            /\ calls[1].err = NoErr
            /\ calls[1].resp.t = "string"
            /\ calls[i].cartId = calls[1].resp.v
    /\ \A i \in CallIdx :
        calls[i].op \in {"configure", "addOption"} =>
            /\ calls[3].op = "addItem"
            /\ calls[3].err = NoErr
            /\ calls[3].resp.t = "json.Number"
            /\ DecimalOf(calls[i].itemId) = calls[3].resp.v
    /\ \A i \in CallIdx :
        calls[i].op \in {"paymentMethods", "pay"} =>
            \E j \in OkCheckouts :
                /\ j < i
                /\ OkCheckouts = {j}
                /\ calls[j].resp.t # "nil" => calls[i].orderId = calls[j].resp.v

C5_Witness ==
    /\ variant = "v1"
    /\ pc = "done"
    /\ Cardinality(FailedCheckouts) = 2
    /\ calls[Len(calls)].orderId = S_o9
    /\ calls[Len(calls)].err = NoErr
    /\ calls[4].itemId = 12345
    /\ calls[4].cartId = S_c2

\* C6 (as claimed): whenever a response that should carry cartId, itemId or
\* orderId succeeded without a usable value of it, that call is the last
\* one issued (so no call carrying the identifier follows it), and the run,
\* once ended, has ended in failure.
C6_NoCallOnUnvalidatedId ==
    \A i \in CallIdx :
        (/\ calls[i].err = NoErr
         /\ \/ calls[i].op = "createCart" /\ calls[i].resp.t # "string"
            \/ calls[i].op = "addItem" /\
                   (calls[i].resp.t # "json.Number"
                    \/ ParseInt(calls[i].resp.v).err # NoErr)
            \/ calls[i].op = "checkout" /\ calls[i].resp.t = "nil")
        => (i = Len(calls) /\ (pc \in Terminal => pc \in {"failed", "panic"}))

\* C7 (as claimed): after add-item succeeded, the numeral "12345" has given
\* itemID 12345 and the run has gone on; any non-numeric itemId has ended
\* the run in the conversion failure, which is no transport error and no
\* panic, with no configure call.
C7_ItemIdParsing ==
    (Len(calls) >= 3 /\ calls[3].op = "addItem" /\ calls[3].err = NoErr) =>
        IF calls[3].resp.v = S_12345 /\ calls[3].resp.t = "json.Number"
        THEN itemID = 12345 /\ (pc = "configure" \/ Issued("configure"))
        ELSE IF calls[3].resp.t = "json.Number"
                /\ \A k \in 1..Len(calls[3].resp.v) : IsDigit(calls[3].resp.v[k])
        THEN TRUE
        ELSE /\ pc = "failed"
             /\ report.fmt \in ConversionFmts
             /\ report.err.kind # "api"
             /\ ~Issued("configure")

\* C8: after list-payment-methods succeeded with an empty sequence, no pay
\* call is ever issued, and once the selection step has run the run has
\* failed with the no-payment-method message, which carries no transport
\* error.
C8_EmptyPaymentMethods ==
    (/\ Len(calls) > 0
     /\ \E i \in CallIdx : calls[i].op = "paymentMethods" /\ calls[i].err = NoErr
     /\ paymentMethods = <<>>) =>
        /\ ~Issued("pay")
        /\ pc \in {"pay", "failed"}
        /\ pc = "failed" =>
            /\ report.fmt = BusinessEmptyFmt
            /\ report.err = NoErr

C8_Witness ==
    /\ pc = "failed"
    /\ report.fmt = BusinessEmptyFmt
    /\ Len(calls) > 0
    /\ calls[Len(calls)].op = "paymentMethods"
    /\ calls[Len(calls)].err = NoErr
    /\ paymentMethods = <<>>

\* C9 (as claimed): once the selection step has run on a non-empty
\* payment-method sequence, exactly one pay call has been issued and it
\* carries the id and the type of the first element, unchanged.
C9_PaymentSelection ==
    (paymentMethods # <<>> /\ pc # "pay") =>
        /\ Cardinality({i \in CallIdx : calls[i].op = "pay"}) = 1
        /\ \A i \in CallIdx : calls[i].op = "pay" =>
               calls[i].pay = PM(paymentMethods[1].id, paymentMethods[1].type)

\* The run of the end-to-end scenario: every call issued so far succeeded,
\* with cart "c-1", item 42, order "o-9" and the one payment method
\* {id: "p-1", type: "credit"}.
InScenario ==
    /\ \A i \in CallIdx :
        /\ calls[i].err = NoErr
        /\ calls[i].op = "createCart" => calls[i].resp = JStr(S_c1)
        /\ calls[i].op = "addItem" => calls[i].resp = JNum(S_42)
        /\ calls[i].op = "checkout" => calls[i].resp = JStr(S_o9)
    /\ paymentMethods = <<PM(JStr(S_p1), JStr(S_credit))>>

\* C10 (as claimed): in the end-to-end scenario, once the selection step
\* has run, the run has ended in success and the calls issued are the eight
\* calls of the interface table, each once, in table order.
C10_EndToEnd ==
    (InScenario /\ pc # "pay") =>
        /\ pc = "done"
        /\ [i \in CallIdx |-> calls[i].op] =
               <<"createCart", "assign", "addItem", "configure", "addOption",
                 "checkout", "paymentMethods", "pay">>

ConfigureIdx == {i \in CallIdx : calls[i].op = "configure"}
OptionIdx == {i \in CallIdx : calls[i].op = "addOption"}

\* C11: when the configure call for the i-th entry of configItems has
\* failed, the run is in the failed state, its report is the configuration
\* message carrying that entry's label and the error, exactly i configure
\* calls have been issued (none for a later entry), and no add-option,
\* checkout, list-payment-methods or pay call has been issued.
C11_ConfigureFailure ==
    \A i \in ConfigureIdx :
        calls[i].err # NoErr =>
            LET n == Cardinality({j \in ConfigureIdx : j <= i}) IN
            /\ pc = "failed"
            /\ ~ENABLED Next
            /\ report.fmt = "Error configuring %s: %v"
            /\ report.label = configItems[n].Label
            /\ calls[i].label = configItems[n].Label
            /\ report.err = calls[i].err
            /\ Cardinality(ConfigureIdx) = n
            /\ ~Issued("addOption")
            /\ ~Issued("checkout")
            /\ ~Issued("paymentMethods")
            /\ ~Issued("pay")

C11_Witness ==
    /\ pc = "failed"
    /\ Cardinality(ConfigureIdx) = 2
    /\ report.label = "region"
    /\ calls[Len(calls)].op = "configure"
    /\ calls[Len(calls)].err # NoErr

\* C12 (as claimed): in both variants, when an add-option call has failed,
\* the run is in the failed state, its report carries the planCode of the
\* option that failed, and that call is the last call issued.
C12_OptionFailure ==
    \A i \in OptionIdx :
        calls[i].err # NoErr =>
            /\ pc = "failed"
            /\ report.label = calls[i].planCode
            /\ i = Len(calls)

\* The checkout step as the retrying program runs it, as a function of the
\* pattern of checkout successes and failures: a failed attempt numbered
\* below 3 is followed by another attempt, and a run that ended at the
\* checkout step without a success made 3 attempts and reports the
\* retry-exhausted failure.
RetryingCheckout ==
    /\ \A i \in FailedCheckouts :
        Cardinality({j \in CheckoutIdx : j <= i}) < 3 =>
            (pc = "checkout" \/ \E j \in CheckoutIdx : j > i)
    /\ (pc \in Terminal /\ CheckoutIdx # {} /\ OkCheckouts = {}) =>
        /\ Cardinality(CheckoutIdx) = 3
        /\ report.fmt = RetryExhaustedFmt

\* C13 (as claimed): both variants run the same checkout step: whichever
\* variant runs, a transient checkout failure is retried, with the same
\* number of attempts and the same outcome for the same pattern of
\* successes and failures.
C13_VariantEquivalence == variant \in {"v1", "v3"} => RetryingCheckout

CallsOf(op) == Cardinality({i \in CallIdx : calls[i].op = op})

\* C14: every run eventually reaches a terminal state (paid, or failed by a
\* fatal message or a run-time panic), and at all times it has issued at
\* most 3 checkout calls, at most one configure call per entry of
\* configItems, at most one add-option call per plan code, and at most one
\* call of every other kind.
C14_Bounded ==
    /\ CallsOf("checkout") <= 3
    /\ CallsOf("configure") <= Len(configItems)
    /\ CallsOf("addOption") <= Len(options)
    /\ \A op \in {"createCart", "assign", "addItem", "paymentMethods", "pay"} :
           CallsOf(op) <= 1
    /\ \A i, j \in ConfigureIdx : calls[i].label = calls[j].label => i = j
    /\ \A i, j \in OptionIdx : calls[i].planCode = calls[j].planCode => i = j

C14_Termination == <>(pc \in Terminal) /\ []C14_Bounded

C14_Witness ==
    /\ variant = "v1"
    /\ pc = "done"
    /\ CallsOf("checkout") = 3
    /\ CallsOf("configure") = 3

\* C15: in every run at most one checkout call has succeeded, no checkout
\* call is issued after a successful one, and at most one pay call is
\* issued.
C15_OneOrder ==
    /\ Cardinality(OkCheckouts) <= 1
    /\ \A i \in OkCheckouts, j \in CheckoutIdx : j <= i
    /\ CallsOf("pay") <= 1
    /\ OkCheckouts # {} => pc # "checkout"

C15_Witness ==
    /\ variant = "v1"
    /\ Cardinality(OkCheckouts) = 1
    /\ Cardinality(FailedCheckouts) = 1
    /\ CallsOf("pay") = 1
    /\ pc = "done"

\* C16: in v1main.go the sleeps are exactly one per failed checkout
\* attempt, the n-th lasting 2^n seconds, so the sleeps are always the first
\* entries of 2, 4, 8; when all 3 attempts have failed the run has slept
\* 2, 4 and 8 seconds, 14 in total, the last sleep after the third failure,
\* and is in the retry-exhausted failure.  v3main.go never sleeps.
C16_BackoffAccounting ==
    /\ variant = "v1" =>
        /\ Len(sleeps) = Cardinality(FailedCheckouts)
        /\ \A n \in 1..Len(sleeps) : sleeps[n] = 2 ^ n
        /\ Cardinality(FailedCheckouts) = 3 =>
            /\ sleeps = <<2, 4, 8>>
            /\ SumSeq(sleeps) = 14
            /\ pc = "failed"
            /\ report.fmt = RetryExhaustedFmt
            /\ ~Issued("paymentMethods")
    /\ variant = "v3" => sleeps = <<>>

C16_Witness ==
    /\ variant = "v1"
    /\ pc = "failed"
    /\ report.fmt = RetryExhaustedFmt
    /\ sleeps = <<2, 4, 8>>
    /\ Len(calls) > 0
    /\ calls[Len(calls)].op = "checkout"

====
